---- MODULE Spec2Model ----
(***************************************************************************)
(* Prediction lifecycle of the stock-prediction application: the           *)
(* `predictions` table, the storage functions that create, confirm, edit,  *)
(* annotate and delete a row, the market-hours gate, the all-users sweep   *)
(* of the ranking route and the per-user sweep of the usePredictions hook. *)
(*                                                                         *)
(* Percent changes are integers (one unit = one step of the input grid),   *)
(* timestamps and the clock are whole hours since the epoch, a calendar    *)
(* date is the number of its day.                                          *)
(***************************************************************************)
EXTENDS Integers, Sequences, FiniteSets, TLC

\* SQL NULL / JavaScript null (outside every value domain of the model)
NULL == -1000
\* JavaScript undefined: a key or field that is absent from an argument or
\* from an update payload
UNDEF == -1001

(***************************************************************************)
(* Bounds of the model                                                      *)
(***************************************************************************)
\* percent changes (predicted, actual, quoted) range over 0..MaxVal
MaxVal == 1
\* instruments an input may name: the first NumInputAssets of ASSET_KEYS
NumInputAssets == 2
\* number of clock readings after the first one
MaxClock == 2
\* number of operations in one behaviour
MaxOps == 3
\* instruments one edit may name
MaxEditAssets == 1
\* previous close a create input carries
PrevCloseIn == 100
\* offset (hours) of the ranking server's local time from UTC
ServerTzOffset == 0

Vals == 0..MaxVal

(***************************************************************************)
(* Program constants                                                        *)
(***************************************************************************)
ASSET_KEYS == <<"nikkei", "sp500", "gold", "bitcoin">>

Assets == {ASSET_KEYS[i] : i \in 1..Len(ASSET_KEYS)}

MARKET_CLOSE_HOURS_UTC ==
    [nikkei |-> 6, sp500 |-> 21, gold |-> 22, bitcoin |-> 21]

InputAssets == {ASSET_KEYS[i] : i \in 1..NumInputAssets}

Users == {"u1", "u2"}

\* the user whose browser session (usePredictions hook) is modelled
SessionUser == "u1"

\* local-time offsets (hours) of the browser
TzOffsets == {9}

VARIABLES
    predictions,              \* the table: id -> row
    nextId,                   \* next id the table assigns (gen_random_uuid)
    clk,                      \* index of the current clock reading
    tz,                       \* offset of the browser's local time from UTC
    pendingPredictions,       \* hook state: cached pending records
    autoConfirmProcessedRef,  \* hook state: ids the sweep has confirmed
    autoConfirmRunRef,        \* hook state: the sweep ran for this stockData
    ops,                      \* operations performed so far
    calls,                    \* storage calls in progress, step by step
    last                      \* the last operation, its arguments and result

vars == <<predictions, nextId, clk, tz, pendingPredictions,
          autoConfirmProcessedRef, autoConfirmRunRef, ops, calls, last>>

(***************************************************************************)
(* Clock.  The readings alternate, day after day, between an hour before   *)
(* every close, an hour between the first and the later closes, and an     *)
(* hour after every close.                                                 *)
(***************************************************************************)
ClockHours == <<5, 12, 23>>

NowAt(c) == 24 * (c \div Len(ClockHours)) + ClockHours[(c % Len(ClockHours)) + 1]

now == NowAt(clk)

\* new Date().toISOString(): the timestamp is the hour itself
ISOString(t) == t

\* new Date().toISOString().split('T')[0]: the UTC calendar day
getToday(t) == t \div 24

\* now.getUTCHours()
getUTCHours(t) == t % 24

\* today.setHours(0,0,0,0): the local calendar day of instant t
LocalDay(t, offset) == (t + offset) \div 24

(***************************************************************************)
(* Deviation                                                                *)
(***************************************************************************)
Abs(x) == IF x < 0 THEN -x ELSE x

calculateDeviation(predicted, actual) == Abs(predicted - actual)

\* Number(x) of a nullable numeric column: Number(null) is 0
Number(x) == IF x = NULL THEN 0 ELSE x

(***************************************************************************)
(* Market-hours gate                                                        *)
(***************************************************************************)
\* mutant: the same-day comparison excludes the close hour itself
isMarketClosed_StrictHour(symbol, predictionDate, t, offset) ==
    IF predictionDate < LocalDay(t, offset) THEN TRUE
    ELSE IF predictionDate > LocalDay(t, offset) THEN FALSE
    ELSE getUTCHours(t) > MARKET_CLOSE_HOURS_UTC[symbol]

isMarketClosed(symbol, predictionDate, t, offset) ==
    IF predictionDate < LocalDay(t, offset) THEN TRUE
    ELSE IF predictionDate > LocalDay(t, offset) THEN FALSE
    ELSE getUTCHours(t) >= MARKET_CLOSE_HOURS_UTC[symbol]

\* mutant: an earlier day is gated by the hour like the same day
areAllPredictedMarketsClosed_NoPastDay(predictionDate, predictedAssets, t, offset) ==
    \A asset \in predictedAssets :
        /\ predictionDate <= LocalDay(t, offset)
        /\ getUTCHours(t) >= MARKET_CLOSE_HOURS_UTC[asset]

areAllPredictedMarketsClosed(predictionDate, predictedAssets, t, offset) ==
    \A asset \in predictedAssets : isMarketClosed(asset, predictionDate, t, offset)

\* mutant: one closed market is enough
canAutoConfirm_AnyClosed(predictionDate, confirmedAt, predictedAssets, t, offset) ==
    IF confirmedAt # NULL THEN FALSE
    ELSE IF Cardinality(predictedAssets) = 0 THEN FALSE
    ELSE \E asset \in predictedAssets : isMarketClosed(asset, predictionDate, t, offset)

canAutoConfirm(predictionDate, confirmedAt, predictedAssets, t, offset) ==
    IF confirmedAt # NULL THEN FALSE
    ELSE IF Cardinality(predictedAssets) = 0 THEN FALSE
    ELSE areAllPredictedMarketsClosed(predictionDate, predictedAssets, t, offset)

\* the ranking route's own copy of the gate
ServerAllPredictedMarketsClosed(predictionDate, predictedAssets, t) ==
    IF predictionDate < LocalDay(t, ServerTzOffset) THEN TRUE
    ELSE IF predictionDate > LocalDay(t, ServerTzOffset) THEN FALSE
    ELSE \A asset \in predictedAssets :
            getUTCHours(t) >= MARKET_CLOSE_HOURS_UTC[asset]

(***************************************************************************)
(* Rows and records                                                         *)
(***************************************************************************)
AllNull == [k \in Assets |-> NULL]

AllUndef == [k \in Assets |-> UNDEF]

\* an update payload that names no column
NoUpdates ==
    [predicted_change |-> AllUndef, actual_change |-> AllUndef,
     deviation |-> AllUndef, confirmed_at |-> UNDEF, review_comment |-> UNDEF]

Merge(old, new) == IF new = UNDEF THEN old ELSE new

\* UPDATE ... SET: the columns the payload names are replaced
ApplyUpdates(row, u) ==
    [row EXCEPT
        !.predicted_change = [k \in Assets |-> Merge(@[k], u.predicted_change[k])],
        !.actual_change    = [k \in Assets |-> Merge(@[k], u.actual_change[k])],
        !.deviation        = [k \in Assets |-> Merge(@[k], u.deviation[k])],
        !.confirmed_at     = Merge(@, u.confirmed_at),
        !.review_comment   = Merge(@, u.review_comment)]

NullAsset ==
    [present |-> FALSE, previousClose |-> NULL, predictedChange |-> NULL,
     actualChange |-> NULL, deviation |-> NULL]

assetFromRow(row, k) ==
    IF row.predicted_change[k] = NULL THEN NullAsset
    ELSE [present         |-> TRUE,
          previousClose   |-> Number(row.previous_close[k]),
          predictedChange |-> Number(row.predicted_change[k]),
          actualChange    |-> row.actual_change[k],
          deviation       |-> row.deviation[k]]

rowToRecord(row) ==
    [id            |-> row.id,
     date          |-> row.date,
     asset         |-> [k \in Assets |-> assetFromRow(row, k)],
     reviewComment |-> row.review_comment,
     createdAt     |-> row.created_at,
     confirmedAt   |-> row.confirmed_at]

\* mutant: the row is matched by its id alone
MatchIdUser_IdOnly(db, id, userId) ==
    {i \in DOMAIN db : i = id}

\* .eq('id', id).eq('user_id', userId): the ids of the matching rows
MatchIdUser(db, id, userId) ==
    {i \in DOMAIN db : i = id /\ db[i].user_id = userId}

\* .eq('user_id', userId).eq('date', date)
MatchUserDate(db, userId, date) ==
    {i \in DOMAIN db : db[i].user_id = userId /\ db[i].date = date}

Put(db, id, row) == [i \in DOMAIN db \cup {id} |-> IF i = id THEN row ELSE db[i]]

Remove(db, ids) == [i \in DOMAIN db \ ids |-> db[i]]

(***************************************************************************)
(* Storage functions.  Each takes the table and returns the table after    *)
(* the call and the value returned to the caller: ret is {} for null and   *)
(* {record} for a record.                                                  *)
(***************************************************************************)

\* input[k] is the predictedChange of instrument k, UNDEF when the input
\* does not name k; an instrument named carries previousClose PrevCloseIn
\* mutant: a duplicate-day conflict is reported as a failure
addPrediction_ConflictFails(db, newId, userId, input, t) ==
    LET today == getToday(t)
        insertData ==
            [id               |-> newId,
             user_id          |-> userId,
             date             |-> today,
             previous_close   |-> [k \in Assets |->
                                     IF input[k] # UNDEF THEN PrevCloseIn ELSE NULL],
             predicted_change |-> [k \in Assets |->
                                     IF input[k] # UNDEF THEN input[k] ELSE NULL],
             actual_change    |-> AllNull,
             deviation        |-> AllNull,
             review_comment   |-> NULL,
             created_at       |-> ISOString(t),
             confirmed_at     |-> NULL]
    IN  IF MatchUserDate(db, userId, today) # {}
        THEN [db |-> db, ret |-> {}]
        ELSE [db |-> Put(db, newId, insertData), ret |-> {rowToRecord(insertData)}]

addPrediction(db, newId, userId, input, t) ==
    LET today == getToday(t)
        insertData ==
            [id               |-> newId,
             user_id          |-> userId,
             date             |-> today,
             previous_close   |-> [k \in Assets |->
                                     IF input[k] # UNDEF THEN PrevCloseIn ELSE NULL],
             predicted_change |-> [k \in Assets |->
                                     IF input[k] # UNDEF THEN input[k] ELSE NULL],
             actual_change    |-> AllNull,
             deviation        |-> AllNull,
             review_comment   |-> NULL,
             created_at       |-> ISOString(t),
             confirmed_at     |-> NULL]
        existing == MatchUserDate(db, userId, today)
    IN  IF existing # {}
        THEN \* unique(user_id, date) violated: error 23505, re-read the row
             [db |-> db, ret |-> {rowToRecord(db[i]) : i \in existing}]
        ELSE [db |-> Put(db, newId, insertData), ret |-> {rowToRecord(insertData)}]

\* the payload updatePredictionResult builds from the row it read;
\* results[k] is the actualChange supplied for k, UNDEF when k is not named
UpdateResultPayload(current, results, t) ==
    LET allConfirmed ==
            \A k \in Assets :
                \/ current.predicted_change[k] = NULL
                \/ (IF results[k] # UNDEF THEN results[k]
                    ELSE current.actual_change[k]) # NULL
    IN  [NoUpdates EXCEPT
            !.actual_change = [k \in Assets |-> results[k]],
            !.deviation     = [k \in Assets |->
                                 IF results[k] # UNDEF
                                 THEN calculateDeviation(
                                          Number(current.predicted_change[k]),
                                          results[k])
                                 ELSE UNDEF],
            !.confirmed_at  = IF allConfirmed THEN ISOString(t) ELSE UNDEF]

updatePredictionResult(db, userId, id, results, t) ==
    LET found == MatchIdUser(db, id, userId)
    IN  IF found = {}
        THEN [db |-> db, ret |-> {}]
        ELSE LET row == ApplyUpdates(db[id], UpdateResultPayload(db[id], results, t))
             IN  [db |-> Put(db, id, row), ret |-> {rowToRecord(row)}]

\* the column values editPrediction builds from its argument alone;
\* updates[k] = [present, predictedChange, actualChange], a field UNDEF
\* when it is not supplied
EditDeviation(upd) ==
    IF upd.actualChange # NULL /\ upd.predictedChange # UNDEF
    THEN calculateDeviation(upd.predictedChange, upd.actualChange)
    ELSE NULL

\* mutant: an actualChange that is not supplied is written as null
EditPayload_AbsentIsNull(updates) ==
    [NoUpdates EXCEPT
        !.predicted_change = [k \in Assets |->
            IF updates[k].present THEN updates[k].predictedChange ELSE UNDEF],
        !.actual_change    = [k \in Assets |->
            IF updates[k].present
            THEN (IF updates[k].actualChange = UNDEF THEN NULL
                  ELSE updates[k].actualChange)
            ELSE UNDEF],
        !.deviation        = [k \in Assets |->
            IF updates[k].present THEN EditDeviation(updates[k]) ELSE UNDEF]]

EditPayload(updates) ==
    [NoUpdates EXCEPT
        !.predicted_change = [k \in Assets |->
            IF updates[k].present THEN updates[k].predictedChange ELSE UNDEF],
        !.actual_change    = [k \in Assets |->
            IF updates[k].present THEN updates[k].actualChange ELSE UNDEF],
        !.deviation        = [k \in Assets |->
            IF updates[k].present /\ updates[k].actualChange # UNDEF
            THEN EditDeviation(updates[k]) ELSE UNDEF]]

\* mutant: confirmed_at is only ever set, as in updatePredictionResult
EditConfirmedAt_NeverCleared(current, updates, t) ==
    LET allConfirmed ==
            \A k \in Assets :
                \/ current.predicted_change[k] = NULL
                \/ (IF updates[k].present /\ updates[k].actualChange # UNDEF
                    THEN updates[k].actualChange
                    ELSE current.actual_change[k]) # NULL
    IN  IF allConfirmed THEN ISOString(t) ELSE UNDEF

\* the confirmed_at editPrediction derives from the row it read
EditConfirmedAt(current, updates, t) ==
    LET allConfirmed ==
            \A k \in Assets :
                \/ current.predicted_change[k] = NULL
                \/ (IF updates[k].present /\ updates[k].actualChange # UNDEF
                    THEN updates[k].actualChange
                    ELSE current.actual_change[k]) # NULL
    IN  IF allConfirmed THEN ISOString(t) ELSE NULL

editPrediction(db, userId, id, updates, t) ==
    LET found == MatchIdUser(db, id, userId)
    IN  IF found = {}
        THEN \* no row read, and the update matches no row: .single() fails
             [db |-> db, ret |-> {}]
        ELSE LET dbUpdates == [EditPayload(updates) EXCEPT
                                  !.confirmed_at = EditConfirmedAt(db[id], updates, t)]
                 row == ApplyUpdates(db[id], dbUpdates)
             IN  [db |-> Put(db, id, row), ret |-> {rowToRecord(row)}]

\* mutant: the empty string is stored as it is
saveReviewComment_KeepsEmpty(db, userId, id, comment) ==
    LET found == MatchIdUser(db, id, userId)
    IN  IF found = {}
        THEN [db |-> db, ret |-> {}]
        ELSE LET row == ApplyUpdates(db[id],
                            [NoUpdates EXCEPT !.review_comment = comment])
             IN  [db |-> Put(db, id, row), ret |-> {rowToRecord(row)}]

\* a comment is the code of its text; code 0 is the empty string
saveReviewComment(db, userId, id, comment) ==
    LET found == MatchIdUser(db, id, userId)
    IN  IF found = {}
        THEN [db |-> db, ret |-> {}]
        ELSE LET row == ApplyUpdates(db[id],
                            [NoUpdates EXCEPT
                                !.review_comment = IF comment = 0 THEN NULL ELSE comment])
             IN  [db |-> Put(db, id, row), ret |-> {rowToRecord(row)}]

\* a delete that matches no row is not an error
deletePrediction(db, userId, id) ==
    [db |-> Remove(db, MatchIdUser(db, id, userId)), ret |-> TRUE]

\* rows of a set of ids as a sequence, newest date first
RECURSIVE OrderByDateDesc(_, _)
OrderByDateDesc(db, ids) ==
    IF ids = {} THEN <<>>
    ELSE LET top == CHOOSE i \in ids :
                        \A j \in ids : \/ db[j].date < db[i].date
                                       \/ (db[j].date = db[i].date /\ j >= i)
         IN  <<rowToRecord(db[top])>> \o OrderByDateDesc(db, ids \ {top})

getAllPredictions(db, userId) ==
    OrderByDateDesc(db, {i \in DOMAIN db : db[i].user_id = userId})

\* .maybeSingle(): null when no row matches
getTodayPrediction(db, userId, t) ==
    {rowToRecord(db[i]) : i \in MatchUserDate(db, userId, getToday(t))}

getPendingPredictions(db, userId) ==
    OrderByDateDesc(db, {i \in DOMAIN db :
                            db[i].user_id = userId /\ db[i].confirmed_at = NULL})

(***************************************************************************)
(* All-users sweep of the ranking route                                     *)
(***************************************************************************)
PredictedColumns(row) == {k \in Assets : row.predicted_change[k] # NULL}

\* the rows autoConfirmAllPending selects and keeps
SweepEligible(db, t) ==
    {i \in DOMAIN db :
        /\ db[i].confirmed_at = NULL
        /\ PredictedColumns(db[i]) # {}
        /\ ServerAllPredictedMarketsClosed(db[i].date, PredictedColumns(db[i]), t)}

neededSymbols(db, eligible) == UNION {PredictedColumns(db[i]) : i \in eligible}

\* the payload the sweep writes to one eligible row; changePercents[k] is
\* NULL when fetchChangePercent failed for k
SweepPayload(pred, changePercents, t) ==
    [NoUpdates EXCEPT
        !.confirmed_at  = ISOString(t),
        !.actual_change = [k \in Assets |->
            IF pred.predicted_change[k] # NULL /\ changePercents[k] # NULL
            THEN changePercents[k] ELSE UNDEF],
        !.deviation     = [k \in Assets |->
            IF pred.predicted_change[k] # NULL /\ changePercents[k] # NULL
            THEN Abs(Number(pred.predicted_change[k]) - changePercents[k])
            ELSE UNDEF]]

autoConfirmAllPending(db, changePercents, t) ==
    LET eligible == SweepEligible(db, t)
    IN  [i \in DOMAIN db |->
            IF i \in eligible
            THEN ApplyUpdates(db[i], SweepPayload(db[i], changePercents, t))
            ELSE db[i]]

(***************************************************************************)
(* Per-user sweep of the usePredictions hook                                *)
(***************************************************************************)
getPredictedAssets(record) == {s \in Assets : record.asset[s].present}

\* the argument processAutoConfirm passes to updatePredictionResult
ClientResults(record, stockData) ==
    [k \in Assets |->
        IF k \in getPredictedAssets(record) THEN stockData[k] ELSE UNDEF]

\* mutant: the loop does not look at autoConfirmProcessedRef
RECURSIVE processAutoConfirm_NoProcessedCheck(_, _, _, _, _, _)
processAutoConfirm_NoProcessedCheck(acc, pending, i, stockData, t, offset) ==
    IF i > Len(pending) THEN acc
    ELSE
      LET record == pending[i]
          predictedAssets == getPredictedAssets(record)
          allDataAvailable == \A a \in predictedAssets : stockData[a] # NULL
          res == updatePredictionResult(acc.db, SessionUser, record.id,
                                        ClientResults(record, stockData), t)
          next ==
            IF predictedAssets = {} THEN acc
            ELSE IF ~canAutoConfirm(record.date, record.confirmedAt,
                                    predictedAssets, t, offset) THEN acc
            ELSE IF ~allDataAvailable THEN acc
            ELSE IF res.ret = {}
            THEN [acc EXCEPT !.db = res.db, !.passed = Append(@, record.id)]
            ELSE [db         |-> res.db,
                  processed  |-> acc.processed \cup {record.id},
                  hasUpdates |-> TRUE,
                  passed     |-> Append(acc.passed, record.id)]
      IN  processAutoConfirm_NoProcessedCheck(next, pending, i + 1, stockData, t, offset)

\* the loop of processAutoConfirm from position i of the cached list on;
\* acc = [db, processed, hasUpdates, passed], passed the ids of the records
\* given to updatePredictionResult so far
RECURSIVE processAutoConfirm(_, _, _, _, _, _)
processAutoConfirm(acc, pending, i, stockData, t, offset) ==
    IF i > Len(pending) THEN acc
    ELSE
      LET record == pending[i]
          predictedAssets == getPredictedAssets(record)
          allDataAvailable == \A a \in predictedAssets : stockData[a] # NULL
          res == updatePredictionResult(acc.db, SessionUser, record.id,
                                        ClientResults(record, stockData), t)
          next ==
            IF record.id \in acc.processed THEN acc
            ELSE IF predictedAssets = {} THEN acc
            ELSE IF ~canAutoConfirm(record.date, record.confirmedAt,
                                    predictedAssets, t, offset) THEN acc
            ELSE IF ~allDataAvailable THEN acc
            ELSE IF res.ret = {}
            THEN [acc EXCEPT !.db = res.db, !.passed = Append(@, record.id)]
            ELSE [db         |-> res.db,
                  processed  |-> acc.processed \cup {record.id},
                  hasUpdates |-> TRUE,
                  passed     |-> Append(acc.passed, record.id)]
      IN  processAutoConfirm(next, pending, i + 1, stockData, t, offset)

(***************************************************************************)
(* Inputs                                                                   *)
(***************************************************************************)
\* the argument that names the instruments of S, each with value v
NamedSame(S, v, absent) == [k \in Assets |-> IF k \in S THEN v ELSE absent]

Named(f) == {k \in Assets : f[k] # UNDEF}

\* PredictionInput values the form builds from the selected instruments
CreateInputs ==
    {NamedSame(S, v, UNDEF) : S \in SUBSET InputAssets, v \in Vals}

\* results arguments of updatePredictionResult
ResultInputs ==
    {NamedSame(S, v, UNDEF) : S \in (SUBSET InputAssets) \ {{}}, v \in Vals}

AbsentUpd == [present |-> FALSE, predictedChange |-> UNDEF, actualChange |-> UNDEF]

EditFields ==
    [present : {TRUE}, predictedChange : Vals \cup {UNDEF},
     actualChange : Vals \cup {NULL, UNDEF}]

\* updates arguments of editPrediction: the instruments of S, each with
\* the fields f
EditInputs ==
    {[k \in Assets |-> IF k \in S THEN f ELSE AbsentUpd] :
        S \in {T \in SUBSET InputAssets : Cardinality(T) <= MaxEditAssets},
        f \in EditFields}

\* quotes a fetch can deliver: a percent change, or NULL when it failed
QuoteInputs == {NamedSame(S, v, NULL) : S \in SUBSET InputAssets, v \in Vals}

Comments == 0..1

\* the rows of a set of ids
Rows(db, ids) == {db[i] : i \in ids}

Pending(db) == {i \in DOMAIN db : db[i].confirmed_at = NULL}

\* calls <<user, id>> on a record: every user with the id of every stored
\* row, and the session user with an id that no row has
Calls(db, fresh) == (Users \X DOMAIN db) \cup {<<SessionUser, fresh>>}

\* the row with a given id, if there is one
Target(db, id) == Rows(db, {id} \cap DOMAIN db)

\* record of an operation: its name, caller, target id, argument, the rows
\* it addressed as they were before it, and what it returned
Op(op, user, id, arg, pre, ret) ==
    [op |-> op, user |-> user, id |-> id, arg |-> arg, pre |-> pre, ret |-> ret]

(***************************************************************************)
(* State machine                                                            *)
(***************************************************************************)
Init ==
    /\ predictions = <<>>
    /\ nextId = 1
    /\ clk = 0
    /\ tz \in TzOffsets
    /\ pendingPredictions = <<>>
    /\ autoConfirmProcessedRef = {}
    /\ autoConfirmRunRef = FALSE
    /\ ops = 0
    /\ calls = <<>>
    /\ last = Op("init", "", 0, 0, {}, {})

Step == ops < MaxOps /\ ops' = ops + 1

HookUnchanged ==
    UNCHANGED <<pendingPredictions, autoConfirmProcessedRef, autoConfirmRunRef>>

\* the pending list after a hook operation that succeeded re-fetches it
Refetch(ok, db) ==
    pendingPredictions' =
        IF ok THEN getPendingPredictions(db, SessionUser) ELSE pendingPredictions

\* mutant: an input that names no instrument is submitted like any other
handleSubmit_NoGuard(db, newId, userId, input, t) ==
    LET r == addPrediction(db, newId, userId, input, t)
    IN  [db |-> r.db, ret |-> r.ret, alert |-> FALSE]

\* the form's submit handler: an input that names no instrument is answered
\* with an alert and is not submitted
handleSubmit(db, newId, userId, input, t) ==
    IF Cardinality(Named(input)) = 0
    THEN [db |-> db, ret |-> {}, alert |-> TRUE]
    ELSE LET r == addPrediction(db, newId, userId, input, t)
         IN  [db |-> r.db, ret |-> r.ret, alert |-> FALSE]

\* create: handleSubmit -> add -> addPrediction
DoCreate(u, input) ==
    /\ LET r == handleSubmit(predictions, nextId, u, input, now)
       IN  /\ predictions' = r.db
           /\ nextId' = IF nextId \in DOMAIN r.db THEN nextId + 1 ELSE nextId
           /\ pendingPredictions' =
                 IF u = SessionUser /\ r.ret # {}
                 THEN <<CHOOSE x \in r.ret : TRUE>> \o pendingPredictions
                 ELSE pendingPredictions
           /\ last' = IF r.alert
                       THEN Op("createRejected", u, 0, input, {}, {})
                       ELSE Op("create", u, 0, input,
                               Rows(predictions,
                                    MatchUserDate(predictions, u, getToday(now))),
                               r.ret)
    /\ UNCHANGED <<clk, tz, calls, autoConfirmProcessedRef, autoConfirmRunRef>>

Create(u, input) == Step /\ DoCreate(u, input)

\* setActuals / manual confirm: updateResult -> updatePredictionResult
DoSetActuals(u, id, results) ==
    /\ LET r == updatePredictionResult(predictions, u, id, results, now)
       IN  /\ predictions' = r.db
           /\ Refetch(u = SessionUser /\ r.ret # {}, r.db)
           /\ last' = Op("setActuals", u, id, results, Target(predictions, id), r.ret)
    /\ UNCHANGED <<nextId, clk, tz, calls, autoConfirmProcessedRef, autoConfirmRunRef>>

SetActuals(u, id, results) == Step /\ DoSetActuals(u, id, results)

\* edit: edit -> editPrediction
DoEdit(u, id, updates) ==
    /\ LET r == editPrediction(predictions, u, id, updates, now)
       IN  /\ predictions' = r.db
           /\ Refetch(u = SessionUser /\ r.ret # {}, r.db)
           /\ last' = Op("edit", u, id, updates, Target(predictions, id), r.ret)
    /\ UNCHANGED <<nextId, clk, tz, calls, autoConfirmProcessedRef, autoConfirmRunRef>>

Edit(u, id, updates) == Step /\ DoEdit(u, id, updates)

SaveComment(u, id, comment) ==
    /\ Step
    /\ LET r == saveReviewComment(predictions, u, id, comment)
       IN  /\ predictions' = r.db
           /\ last' = Op("saveComment", u, id, comment, Target(predictions, id), r.ret)
    /\ UNCHANGED <<nextId, clk, tz, calls>>
    /\ HookUnchanged

\* delete: remove -> deletePrediction
Delete(u, id) ==
    /\ Step
    /\ LET r == deletePrediction(predictions, u, id)
       IN  /\ predictions' = r.db
           /\ Refetch(u = SessionUser /\ r.ret, r.db)
           /\ last' = Op("delete", u, id, 0, Target(predictions, id), {r.ret})
    /\ UNCHANGED <<nextId, clk, tz, calls, autoConfirmProcessedRef, autoConfirmRunRef>>

\* loadData of the hook (mount, refresh)
DoLoadData ==
    /\ pendingPredictions' = getPendingPredictions(predictions, SessionUser)
    /\ last' = Op("loadData", SessionUser, 0, 0, {}, {})
    /\ UNCHANGED <<predictions, nextId, clk, tz, calls,
                   autoConfirmProcessedRef, autoConfirmRunRef>>

LoadData == Step /\ DoLoadData

\* GET /api/ranking: the sweep over every user's pending rows; the quotes
\* are the outcomes of fetchChangePercent
RankingSweep(changePercents) ==
    /\ Step
    /\ \A k \in Assets :
          k \notin neededSymbols(predictions, SweepEligible(predictions, now))
             => changePercents[k] = NULL
    /\ predictions' = autoConfirmAllPending(predictions, changePercents, now)
    /\ last' = Op("rankingSweep", "", 0, changePercents,
                  Rows(predictions, Pending(predictions)), {})
    /\ UNCHANGED <<nextId, clk, tz, calls>>
    /\ HookUnchanged

\* the hook's effect on a new stockData; stockData[k] is the changePercent
\* of k's quote, NULL when there is no quote
\* what the effect returns to nobody but the history: whether
\* processAutoConfirm ran, and the ids it passed to updatePredictionResult
SweepRun(ran, passed) == {[ran |-> ran, passed |-> passed]}

DoClientSweep(stockData) ==
    /\ IF \A s \in Assets : stockData[s] = NULL
       THEN /\ autoConfirmRunRef' = FALSE
            /\ last' = Op("clientSweep", SessionUser, 0, stockData,
                          Rows(predictions, Pending(predictions)),
                          SweepRun(FALSE, <<>>))
            /\ UNCHANGED <<predictions, pendingPredictions, autoConfirmProcessedRef>>
       ELSE IF autoConfirmRunRef
       THEN /\ last' = Op("clientSweep", SessionUser, 0, stockData,
                          Rows(predictions, Pending(predictions)),
                          SweepRun(FALSE, <<>>))
            /\ UNCHANGED <<predictions, pendingPredictions,
                           autoConfirmProcessedRef, autoConfirmRunRef>>
       ELSE LET r == processAutoConfirm(
                        [db |-> predictions, processed |-> autoConfirmProcessedRef,
                         hasUpdates |-> FALSE, passed |-> <<>>],
                        pendingPredictions, 1, stockData, now, tz)
            IN  /\ autoConfirmRunRef' = TRUE
                /\ predictions' = r.db
                /\ autoConfirmProcessedRef' = r.processed
                /\ Refetch(r.hasUpdates, r.db)
                /\ last' = Op("clientSweep", SessionUser, 0, stockData,
                              Rows(predictions, Pending(predictions)),
                              SweepRun(TRUE, r.passed))
    /\ UNCHANGED <<nextId, clk, tz, calls>>

ClientSweep(stockData) == Step /\ DoClientSweep(stockData)

DoTick ==
    /\ clk < MaxClock
    /\ clk' = clk + 1
    /\ last' = Op("tick", "", 0, 0, {}, {})
    /\ UNCHANGED <<predictions, nextId, tz, calls, pendingPredictions,
                   autoConfirmProcessedRef, autoConfirmRunRef>>

Tick == Step /\ DoTick

Next ==
    \/ \E u \in Users, input \in CreateInputs : Create(u, input)
    \/ \E c \in Calls(predictions, nextId), results \in ResultInputs :
          SetActuals(c[1], c[2], results)
    \/ \E c \in Calls(predictions, nextId), updates \in EditInputs :
          Edit(c[1], c[2], updates)
    \/ \E c \in Calls(predictions, nextId), comment \in Comments :
          SaveComment(c[1], c[2], comment)
    \/ \E c \in Calls(predictions, nextId) : Delete(c[1], c[2])
    \/ LoadData
    \/ \E q \in QuoteInputs : RankingSweep(q)
    \/ \E q \in QuoteInputs : ClientSweep(q)
    \/ Tick

Spec == Init /\ [][Next]_vars

TypeOK == ops \in 0..MaxOps

(***************************************************************************)
(* The market-hours gate as a function of its inputs: the instant, the     *)
(* local-time offset, the prediction date and the instruments are drawn    *)
(* from bounded sets and the gate is applied to them.                      *)
(***************************************************************************)
\* instants range over the hours of GateDays days, starting with day 1
GateDays == 3

GateInstants == 24..(24 * (GateDays + 1) - 1)

GateDates == 0..(GateDays + 1)

GateOffsets == {-5, 0, 9}

CallIsMarketClosed(symbol, date, t, offset) ==
    /\ last' = Op("isMarketClosed", "", 0,
                  [symbol |-> symbol, date |-> date, t |-> t, offset |-> offset],
                  {}, isMarketClosed(symbol, date, t, offset))
    /\ UNCHANGED <<predictions, nextId, clk, tz, calls, pendingPredictions,
                   autoConfirmProcessedRef, autoConfirmRunRef, ops>>

CallCanAutoConfirm(date, confirmedAt, assets, t, offset) ==
    /\ last' = Op("canAutoConfirm", "", 0,
                  [date |-> date, confirmedAt |-> confirmedAt, assets |-> assets,
                   t |-> t, offset |-> offset],
                  {}, canAutoConfirm(date, confirmedAt, assets, t, offset))
    /\ UNCHANGED <<predictions, nextId, clk, tz, calls, pendingPredictions,
                   autoConfirmProcessedRef, autoConfirmRunRef, ops>>

\* one call per behaviour
NextGate ==
    \/ /\ last.op = "init"
       /\ \E symbol \in Assets, date \in GateDates, t \in GateInstants,
             offset \in GateOffsets : CallIsMarketClosed(symbol, date, t, offset)
    \/ /\ last.op = "init"
       /\ \E date \in GateDates, confirmedAt \in {NULL, 0}, assets \in SUBSET Assets,
             t \in GateInstants, offset \in GateOffsets :
             CallCanAutoConfirm(date, confirmedAt, assets, t, offset)

SpecGate == Init /\ [][NextGate]_vars

(***************************************************************************)
(* Properties                                                               *)
(***************************************************************************)
Confirmed(row) == row.confirmed_at # NULL

AllActual(row) ==
    \A k \in Assets : row.predicted_change[k] # NULL => row.actual_change[k] # NULL

\* C1: every stored record has confirmedAt non-null if and only if every
\* instrument with a non-null predictedChange has a non-null actualChange.
C1_ConfirmedIffAllActual ==
    \A i \in DOMAIN predictions :
        Confirmed(predictions[i]) <=> AllActual(predictions[i])

\* C2: for every instrument of every stored record, deviation is non-null
\* if and only if actualChange is non-null.
C2_DeviationIffActual ==
    \A i \in DOMAIN predictions : \A k \in Assets :
        (predictions[i].deviation[k] # NULL) <=> (predictions[i].actual_change[k] # NULL)

\* C3: in every confirmed record, every predicted instrument that has an
\* actualChange stores deviation = abs(predictedChange - actualChange).
C3_DeviationIsAbs ==
    \A i \in DOMAIN predictions : \A k \in Assets :
        (/\ Confirmed(predictions[i])
         /\ predictions[i].predicted_change[k] # NULL
         /\ predictions[i].actual_change[k] # NULL)
        => predictions[i].deviation[k] =
              Abs(predictions[i].predicted_change[k] - predictions[i].actual_change[k])

\* an edit by the owner that supplies null as the actualChange of
\* instrument k, which row r predicted
NullsPredicted(r, k) ==
    /\ r.user_id = last.user
    /\ r.predicted_change[k] # NULL
    /\ last.arg[k].present
    /\ last.arg[k].actualChange = NULL

\* C4: after an edit of a confirmed record that sets the actualChange of a
\* predicted instrument to null, the record is pending (confirmedAt null).
C4_EditNullUnconfirms ==
    last.op = "edit" =>
        \A r \in last.pre :
            (Confirmed(r) /\ \E k \in Assets : NullsPredicted(r, k))
            => /\ last.id \in DOMAIN predictions
               /\ predictions[last.id].confirmed_at = NULL

\* C4 witness: a confirmed record with two actualized instruments was
\* edited, one actualChange set to null, the other instrument untouched and
\* still actualized; the record is pending.
C4_Witness ==
    /\ last.op = "edit"
    /\ \E r \in last.pre : \E k, j \in Assets :
          /\ k # j
          /\ Confirmed(r)
          /\ NullsPredicted(r, k)
          /\ r.actual_change[k] # NULL
          /\ r.predicted_change[j] # NULL
          /\ r.actual_change[j] # NULL
          /\ ~last.arg[j].present
          /\ predictions[last.id].actual_change[j] # NULL
          /\ predictions[last.id].actual_change[k] = NULL
          /\ predictions[last.id].confirmed_at = NULL

\* C5: one row per (user, date); a create for a (user, date) that already
\* has a row returns that row's record, leaves the row as it was and adds
\* no row.
C5_CreateIdempotent ==
    /\ \A i, j \in DOMAIN predictions :
          (predictions[i].user_id = predictions[j].user_id
             /\ predictions[i].date = predictions[j].date) => i = j
    /\ (last.op = "create" /\ last.pre # {}) =>
          \A r \in last.pre :
             /\ r.id \in DOMAIN predictions
             /\ predictions[r.id] = r
             /\ last.ret = {rowToRecord(r)}
             /\ MatchUserDate(predictions, last.user, r.date) = {r.id}

\* C5 witness: a second create for the same user and date has returned.
C5_Witness ==
    /\ last.op = "create"
    /\ last.pre # {}
    /\ last.ret # {}
    /\ \E r \in last.pre : Named(last.arg) # PredictedColumns(r)

\* C6: a sweep (ranking route or hook) leaves a pending record exactly as
\* it was unless a percent change was obtained for every instrument the
\* record predicted.
C6_SweepAllOrNothing ==
    last.op \in {"rankingSweep", "clientSweep"} =>
        \A r \in last.pre :
            \/ (r.id \in DOMAIN predictions /\ predictions[r.id] = r)
            \/ \A k \in PredictedColumns(r) : last.arg[k] # NULL

\* C10: an edit that supplies only predictedChange for an instrument leaves
\* the stored actualChange and deviation of that instrument as they were.
OnlyPredicted(k) ==
    /\ last.arg[k].present
    /\ last.arg[k].predictedChange # UNDEF
    /\ last.arg[k].actualChange = UNDEF

C10_EditPredictedKeepsActual ==
    last.op = "edit" =>
        \A r \in last.pre : \A k \in Assets :
            OnlyPredicted(k) =>
                /\ last.id \in DOMAIN predictions
                /\ predictions[last.id].actual_change[k] = r.actual_change[k]
                /\ predictions[last.id].deviation[k] = r.deviation[k]

\* C10 witness: the owner's edit changed the predictedChange of an
\* actualized instrument and supplied nothing else for it.
C10_Witness ==
    /\ last.op = "edit"
    /\ \E r \in last.pre : \E k \in Assets :
          /\ r.user_id = last.user
          /\ OnlyPredicted(k)
          /\ r.actual_change[k] # NULL
          /\ r.deviation[k] # NULL
          /\ r.predicted_change[k] # last.arg[k].predictedChange
          /\ predictions[last.id].predicted_change[k] = last.arg[k].predictedChange
          /\ predictions[last.id].actual_change[k] = r.actual_change[k]

(***************************************************************************)
(* Properties of the gate (SpecGate)                                        *)
(***************************************************************************)
\* the close hours as the documentation states them
StatedCloseHour(symbol) ==
    CASE symbol = "nikkei"  -> 6
      [] symbol = "sp500"   -> 21
      [] symbol = "gold"    -> 22
      [] symbol = "bitcoin" -> 21

\* local calendar day and UTC hour of the instant of the last gate call
CallDay == (last.arg.t + last.arg.offset) \div 24

CallHour == last.arg.t % 24

\* C7: canAutoConfirm is false for a confirmed record, false for an empty
\* instrument list, and otherwise true exactly when isMarketClosed holds
\* for every listed instrument.
C7_CanAutoConfirm ==
    last.op = "canAutoConfirm" =>
        /\ last.arg.confirmedAt # NULL => last.ret = FALSE
        /\ last.arg.assets = {} => last.ret = FALSE
        /\ (last.arg.confirmedAt = NULL /\ last.arg.assets # {}) =>
              (last.ret <=>
                 \A a \in last.arg.assets :
                    isMarketClosed(a, last.arg.date, last.arg.t, last.arg.offset))

\* C7 witness: an unconfirmed same-day record with one market closed and
\* another open is refused.
C7_Witness ==
    /\ last.op = "canAutoConfirm"
    /\ last.arg.confirmedAt = NULL
    /\ last.arg.date = CallDay
    /\ \E a, b \in last.arg.assets :
          /\ CallHour >= StatedCloseHour(a)
          /\ CallHour < StatedCloseHour(b)
    /\ last.ret = FALSE

\* C8 as stated: false for a record dated tomorrow; true for a record dated
\* yesterday whatever its instruments; for a same-day record true only when
\* the UTC hour has reached the close hour of every predicted instrument.
C8_Original ==
    last.op = "canAutoConfirm" =>
        /\ last.arg.date = CallDay + 1 => last.ret = FALSE
        /\ last.arg.date = CallDay - 1 => last.ret = TRUE
        /\ (last.arg.date = CallDay /\ last.ret) =>
              \A a \in last.arg.assets : CallHour >= StatedCloseHour(a)

\* C8 amended: as C8, the yesterday case for an unconfirmed record with at
\* least one predicted instrument.
C8_Amended ==
    last.op = "canAutoConfirm" =>
        /\ last.arg.date = CallDay + 1 => last.ret = FALSE
        /\ (last.arg.date = CallDay - 1 /\ last.arg.confirmedAt = NULL
              /\ last.arg.assets # {}) => last.ret = TRUE
        /\ (last.arg.date = CallDay /\ last.ret) =>
              \A a \in last.arg.assets : CallHour >= StatedCloseHour(a)

\* C8 witness: an unconfirmed record dated yesterday is accepted at an hour
\* before the close hour of one of its instruments.
C8_Witness ==
    /\ last.op = "canAutoConfirm"
    /\ last.arg.date = CallDay - 1
    /\ last.arg.confirmedAt = NULL
    /\ \E a \in last.arg.assets : CallHour < StatedCloseHour(a)
    /\ last.ret = TRUE

\* C9: isMarketClosed is true for a date before today, false for a date
\* after today, and for today true exactly when the UTC hour is at or past
\* the instrument's close hour (6, 21, 22, 21).
C9_IsMarketClosed ==
    last.op = "isMarketClosed" =>
        /\ last.arg.date < CallDay => last.ret = TRUE
        /\ last.arg.date > CallDay => last.ret = FALSE
        /\ last.arg.date = CallDay =>
              (last.ret <=> CallHour >= StatedCloseHour(last.arg.symbol))

\* C9 witness: a same-day call at exactly the close hour answers closed.
C9_Witness ==
    /\ last.op = "isMarketClosed"
    /\ last.arg.date = CallDay
    /\ CallHour = StatedCloseHour(last.arg.symbol)
    /\ last.ret = TRUE

(***************************************************************************)
(* Properties of edit, ownership and failure results (Spec)                 *)
(***************************************************************************)
\* an edit that supplies a non-null actualChange and no predictedChange for
\* instrument k
OnlyActual(k) ==
    /\ last.arg[k].present
    /\ last.arg[k].predictedChange = UNDEF
    /\ last.arg[k].actualChange \notin {NULL, UNDEF}

\* C11: an edit by the owner that supplies only a non-null actualChange for
\* a predicted instrument stores deviation = abs(previously stored
\* predictedChange - supplied actualChange) and leaves predictedChange as
\* it was.
C11_EditActualRecomputes ==
    last.op = "edit" =>
        \A r \in last.pre : \A k \in Assets :
            (r.user_id = last.user /\ r.predicted_change[k] # NULL /\ OnlyActual(k))
            => /\ last.id \in DOMAIN predictions
               /\ predictions[last.id].predicted_change[k] = r.predicted_change[k]
               /\ predictions[last.id].deviation[k] =
                     Abs(r.predicted_change[k] - last.arg[k].actualChange)

\* the operations of the repository that address a record by its id
RepoOps == {"setActuals", "edit", "saveComment", "delete"}

\* the records a read for user u returns
ReadResults(u) ==
    LET all == getAllPredictions(predictions, u)
        pending == getPendingPredictions(predictions, u)
    IN  {all[n] : n \in 1..Len(all)} \cup {pending[n] : n \in 1..Len(pending)}
           \cup getTodayPrediction(predictions, u, now)

\* every record a read for u returns is the record of a row of u
ReadsIsolated ==
    \A u \in Users : \A rec \in ReadResults(u) :
        /\ rec.id \in DOMAIN predictions
        /\ predictions[rec.id].user_id = u
        /\ rec = rowToRecord(predictions[rec.id])

\* C12: setActuals, edit, saveComment and delete called by user U leave
\* every row of every other user in the table exactly as it was and return
\* no record of another user, whatever id is supplied; getAll, getToday and
\* getPending for U return records of U's rows only.
C12_UserIsolation ==
    [][/\ last'.op \in RepoOps =>
            /\ \A i \in DOMAIN predictions :
                  predictions[i].user_id # last'.user =>
                     /\ i \in DOMAIN predictions'
                     /\ predictions'[i] = predictions[i]
            /\ last'.op # "delete" =>
                  \A rec \in last'.ret :
                     /\ rec.id \in DOMAIN predictions'
                     /\ predictions'[rec.id].user_id = last'.user
        /\ ReadsIsolated']_vars

\* C12 witness: a record-returning operation was called with the id of
\* another user's row; the row is as it was and nothing was returned, and
\* both users have rows that the reads tell apart.
C12_Witness ==
    /\ last.op \in RepoOps \ {"delete"}
    /\ \E r \in last.pre :
          /\ r.user_id # last.user
          /\ r.id \in DOMAIN predictions
          /\ predictions[r.id] = r
    /\ last.ret = {}
    /\ \A u \in Users : Len(getAllPredictions(predictions, u)) > 0

\* the last operation addressed an id that no row has, or a row of another
\* user
NotFoundOrForbidden ==
    \/ last.pre = {}
    \/ \E r \in last.pre : r.user_id # last.user

\* C13: setActuals, edit, saveComment and delete that target an id which
\* does not exist or is not owned by the caller report a failure: null from
\* the record-returning operations, false from delete.
C13_NotFoundFails ==
    (last.op \in RepoOps /\ NotFoundOrForbidden) =>
        IF last.op = "delete" THEN last.ret = {FALSE} ELSE last.ret = {}

NormalizedComment(comment) == IF comment = 0 THEN NULL ELSE comment

\* C15: saveComment by the owner changes only reviewComment, an empty
\* string being stored as null; confirmedAt and every instrument's
\* predictedChange, actualChange and deviation are as they were.
C15_SaveCommentFrame ==
    last.op = "saveComment" =>
        \A r \in last.pre :
            r.user_id = last.user =>
                /\ r.id \in DOMAIN predictions
                /\ predictions[r.id] =
                      [r EXCEPT !.review_comment = NormalizedComment(last.arg)]
                /\ last.ret = {rowToRecord(predictions[r.id])}

\* C15 witness: the owner saved the empty string on a confirmed record;
\* the comment is null and the record is still confirmed.
C15_Witness ==
    /\ last.op = "saveComment"
    /\ last.arg = 0
    /\ \E r \in last.pre :
          /\ r.user_id = last.user
          /\ Confirmed(r)
          /\ predictions[r.id].review_comment = NULL
          /\ Confirmed(predictions[r.id])

\* C16: saveComment on a record whose confirmedAt is null does not set
\* reviewComment.
C16_CommentOnlyAfterConfirm ==
    last.op = "saveComment" =>
        \A r \in last.pre :
            ~Confirmed(r) =>
                /\ r.id \in DOMAIN predictions
                /\ predictions[r.id].review_comment = r.review_comment

(***************************************************************************)
(* Ranking route: GET /api/ranking.  averageDeviation is in hundredths and *)
(* directionAccuracy in tenths, the precision the route rounds them to.    *)
(***************************************************************************)
\* jstOffset, in hours
JstOffsetHours == 9

\* averageDeviation: -1 (hundredths), the flag of a user without confirmed data
SentinelAverage == -100

\* directionAccuracy: -1 (tenths)
SentinelAccuracy == -10

\* rankings.slice(0, 50)
RankingLimit == 50

\* weekday of day 0 (0 = Sunday, as getUTCDay counts)
Day0Weekday == 0

getUTCDay(day) == (day + Day0Weekday) % 7

\* Math.round(num / den) for num >= 0 and den > 0
Round(num, den) == (2 * num + den) \div (2 * den)

\* weekStartStr: the Monday of the current week, Japan time
weekStart(t) ==
    LET jstDay == LocalDay(t, JstOffsetHours)
        day == getUTCDay(jstDay)
        diff == IF day = 0 THEN 6 ELSE day - 1
    IN  jstDay - diff

\* ids of the rows of predictionsQuery: confirmed, and inside the week when
\* the period is weekly
ConfirmedInWindow(db, period, t) ==
    {i \in DOMAIN db :
        /\ db[i].confirmed_at # NULL
        /\ (period = "weekly" => db[i].date >= weekStart(t))}

\* ids of the rows dated todayStr (Japan time)
LatestRows(db, t) == {i \in DOMAIN db : db[i].date = LocalDay(t, JstOffsetHours)}

\* the users that own a row of ids, in the order the query returns them
UsersOf(db, ids, order) ==
    SelectSeq(order, LAMBDA u : \E i \in ids : db[i].user_id = u)

\* the cells <<row, instrument>> of user u that count for stats.deviations
DeviationCells(db, ids, u) ==
    {c \in ids \X Assets : db[c[1]].user_id = u /\ db[c[1]].deviation[c[2]] # NULL}

\* the cells of user u that count for stats.directionTotal
DirectionCells(db, ids, u) ==
    {c \in ids \X Assets :
        /\ db[c[1]].user_id = u
        /\ db[c[1]].predicted_change[c[2]] # NULL
        /\ db[c[1]].actual_change[c[2]] # NULL}

RECURSIVE SumDeviations(_, _)
SumDeviations(db, cells) ==
    IF cells = {} THEN 0
    ELSE LET c == CHOOSE x \in cells : TRUE
         IN  Number(db[c[1]].deviation[c[2]]) + SumDeviations(db, cells \ {c})

\* latestPredictionMap.get(userId) || null
latestPrediction(db, latest, u) ==
    {[date |-> db[i].date,
      predictedChange |-> db[i].predicted_change,
      actualChange |-> db[i].actual_change] : i \in {j \in latest : db[j].user_id = u}}

\* the row pushed for a user that has confirmed deviations
RankedEntry(db, ids, latest, u) ==
    LET deviations == DeviationCells(db, ids, u)
        direction == DirectionCells(db, ids, u)
        directionTotal == Cardinality(direction)
        directionCorrect ==
            Cardinality({c \in direction :
                (Number(db[c[1]].predicted_change[c[2]]) >= 0)
                    = (Number(db[c[1]].actual_change[c[2]]) >= 0)})
        totalPredictions == Cardinality({i \in ids : db[i].user_id = u})
    IN  [userId               |-> u,
         averageDeviation     |-> Round(100 * SumDeviations(db, deviations),
                                        Cardinality(deviations)),
         totalPredictions     |-> totalPredictions,
         confirmedPredictions |-> totalPredictions,
         directionAccuracy    |-> IF directionTotal > 0
                                  THEN Round(1000 * directionCorrect, directionTotal)
                                  ELSE 0,
         latestPrediction     |-> latestPrediction(db, latest, u)]

\* the row pushed for a user that has a prediction today and no entry in
\* userStatsMap
SentinelEntry(db, latest, u) ==
    [userId               |-> u,
     averageDeviation     |-> SentinelAverage,
     totalPredictions     |-> 0,
     confirmedPredictions |-> 0,
     directionAccuracy    |-> SentinelAccuracy,
     latestPrediction     |-> latestPrediction(db, latest, u)]

\* userStatsMap.forEach: users without a deviation are skipped
RECURSIVE RankedEntries(_, _, _, _)
RankedEntries(db, ids, latest, users) ==
    IF users = <<>> THEN <<>>
    ELSE LET u == Head(users)
             rest == RankedEntries(db, ids, latest, Tail(users))
         IN  IF DeviationCells(db, ids, u) = {} THEN rest
             ELSE <<RankedEntry(db, ids, latest, u)>> \o rest

\* latestPredictionMap.forEach: users that are in userStatsMap are skipped
RECURSIVE SentinelEntries(_, _, _, _)
SentinelEntries(db, ids, latest, users) ==
    IF users = <<>> THEN <<>>
    ELSE LET u == Head(users)
             rest == SentinelEntries(db, ids, latest, Tail(users))
         IN  IF \E i \in ids : db[i].user_id = u THEN rest
             ELSE <<SentinelEntry(db, latest, u)>> \o rest

\* mutant: rows are compared by averageDeviation alone
compareRankings_ByAverage(a, b) == a.averageDeviation - b.averageDeviation

\* the comparator of rankings.sort
compareRankings(a, b) ==
    IF a.averageDeviation = SentinelAverage /\ b.averageDeviation = SentinelAverage
    THEN 0
    ELSE IF a.averageDeviation = SentinelAverage THEN 1
    ELSE IF b.averageDeviation = SentinelAverage THEN -1
    ELSE a.averageDeviation - b.averageDeviation

\* Array.prototype.sort is stable: x goes after every row that does not
\* compare greater than it
RECURSIVE InsertRanking(_, _)
InsertRanking(sorted, x) ==
    IF sorted = <<>> THEN <<x>>
    ELSE IF compareRankings(sorted[Len(sorted)], x) > 0
    THEN InsertRanking(SubSeq(sorted, 1, Len(sorted) - 1), x)
            \o <<sorted[Len(sorted)]>>
    ELSE sorted \o <<x>>

RECURSIVE sortRankings(_, _)
sortRankings(rankings, n) ==
    IF n = 0 THEN <<>>
    ELSE InsertRanking(sortRankings(rankings, n - 1), rankings[n])

\* the handler: the sweep, then the leaderboard of the table it leaves;
\* order is the order in which the queries return the users' rows
GET(db0, changePercents, period, order, t) ==
    LET db == autoConfirmAllPending(db0, changePercents, t)
        ids == ConfirmedInWindow(db, period, t)
        latest == LatestRows(db, t)
        rankings ==
            RankedEntries(db, ids, latest, UsersOf(db, ids, order))
               \o SentinelEntries(db, ids, latest, UsersOf(db, latest, order))
        sorted == sortRankings(rankings, Len(rankings))
    IN  [db  |-> db,
         ret |-> [rankings   |-> SubSeq(sorted, 1,
                                        IF Len(sorted) < RankingLimit
                                        THEN Len(sorted) ELSE RankingLimit),
                  totalUsers |-> Len(sorted)]]

(***************************************************************************)
(* Ranking requests on tables of three users.  A user may have a record    *)
(* created on day 1 that is pending or confirmed, the first user also a    *)
(* record created and confirmed on day 0; the request is made on day 1 or  *)
(* later.                                                                  *)
(***************************************************************************)
RankUserSeq == <<"u1", "u2", "u3">>

RankUsers == {RankUserSeq[j] : j \in 1..Len(RankUserSeq)}

\* number of clock readings after the creation of the day-1 records
MaxRankClock == 3

\* the first clock reading of day 1
RankCreateClock == Len(ClockHours)

RankClocks == RankCreateClock..(RankCreateClock + MaxRankClock)

Periods == {"all", "weekly"}

\* the orders in which a query can return the users' rows
UserOrders ==
    {o \in [1..Len(RankUserSeq) -> RankUsers] :
        \A a, b \in 1..Len(RankUserSeq) : o[a] = o[b] => a = b}

\* what a user did: old - a record on day 0, confirmed with deviation
\* MaxVal; kind - the day-1 record, naming the first n instruments with
\* predictedChange 0; a - the actualChange of the n-th instrument when the
\* record was confirmed (0 for the others)
RankPlans ==
    [old : BOOLEAN, kind : {"none"}, n : {1}, a : {0}]
       \cup [old : BOOLEAN, kind : {"pending"}, n : 1..NumInputAssets, a : {0}]
       \cup [old : BOOLEAN, kind : {"confirmed"}, n : 1..NumInputAssets, a : Vals]

\* the plans of the three users; the first user alone may have a day-0 record
RankTables ==
    {plans \in [RankUsers -> RankPlans] :
        \A j \in 2..Len(RankUserSeq) : ~plans[RankUserSeq[j]].old}

PlanInput(n) == NamedSame({ASSET_KEYS[i] : i \in 1..n}, 0, UNDEF)

PlanResults(n, a) ==
    [k \in Assets |->
        IF k = ASSET_KEYS[n] THEN a
        ELSE IF k \in {ASSET_KEYS[i] : i \in 1..n} THEN 0 ELSE UNDEF]

\* the table after create and setActuals calls that carry out the plans of
\* the users from the j-th on
RECURSIVE BuildTable(_, _, _)
BuildTable(db, j, plans) ==
    IF j > Len(RankUserSeq) THEN db
    ELSE
      LET u == RankUserSeq[j]
          plan == plans[u]
          oldId == 2 * j - 1
          newId == 2 * j
          db1 == IF plan.old
                 THEN updatePredictionResult(
                          addPrediction(db, oldId, u, PlanInput(1), NowAt(0)).db,
                          u, oldId, PlanResults(1, MaxVal), NowAt(0)).db
                 ELSE db
          db2 == IF plan.kind = "none" THEN db1
                 ELSE addPrediction(db1, newId, u, PlanInput(plan.n),
                                    NowAt(RankCreateClock)).db
          db3 == IF plan.kind = "confirmed"
                 THEN updatePredictionResult(db2, u, newId,
                                             PlanResults(plan.n, plan.a),
                                             NowAt(RankCreateClock)).db
                 ELSE db2
      IN  BuildTable(db3, j + 1, plans)

InitRanking ==
    /\ predictions \in {BuildTable(<<>>, 1, plans) : plans \in RankTables}
    /\ nextId = 2 * Len(RankUserSeq) + 1
    /\ clk \in RankClocks
    /\ tz \in TzOffsets
    /\ pendingPredictions = <<>>
    /\ autoConfirmProcessedRef = {}
    /\ autoConfirmRunRef = FALSE
    /\ ops = 0
    /\ calls = <<>>
    /\ last = Op("init", "", 0, 0, {}, {})

RankingRequest(changePercents, period, order) ==
    /\ \A k \in Assets :
          k \notin neededSymbols(predictions, SweepEligible(predictions, now))
             => changePercents[k] = NULL
    /\ LET r == GET(predictions, changePercents, period, order, now)
       IN  /\ predictions' = r.db
           /\ last' = Op("ranking", "", 0,
                         [changePercents |-> changePercents, period |-> period,
                          order |-> order],
                         {}, r.ret)
    /\ UNCHANGED <<nextId, clk, tz, calls, ops>>
    /\ HookUnchanged

\* one request per behaviour
NextRanking ==
    /\ last.op = "init"
    /\ \E q \in QuoteInputs, period \in Periods, order \in UserOrders :
          RankingRequest(q, period, order)

SpecRanking == InitRanking /\ [][NextRanking]_vars

(***************************************************************************)
(* Properties of the leaderboard (SpecRanking)                              *)
(***************************************************************************)
IsSentinel(entry) == entry.averageDeviation = SentinelAverage

\* the place of user u in the order the queries returned the rows
Position(order, u) == CHOOSE n \in DOMAIN order : order[n] = u

\* user u has a confirmed deviation inside the window of the last request
HasConfirmedDeviation(u) ==
    DeviationCells(predictions,
                   ConfirmedInWindow(predictions, last.arg.period, now), u) # {}

\* C17: in the leaderboard the users with confirmed deviations are in
\* non-decreasing order of averageDeviation, each of them precedes every
\* user that carries the sentinel, and the sentinel users are in the order
\* in which they were appended.
C17_RankingOrder ==
    last.op = "ranking" =>
        LET r == last.ret.rankings
        IN  /\ \A u \in RankUsers :
                  HasConfirmedDeviation(u) =>
                     \E n \in 1..Len(r) : r[n].userId = u /\ ~IsSentinel(r[n])
            /\ \A i, j \in 1..Len(r) :
                  i < j =>
                     /\ (~IsSentinel(r[i]) /\ ~IsSentinel(r[j]))
                           => r[i].averageDeviation <= r[j].averageDeviation
                     /\ ~(IsSentinel(r[i]) /\ ~IsSentinel(r[j]))
                     /\ (IsSentinel(r[i]) /\ IsSentinel(r[j]))
                           => Position(last.arg.order, r[i].userId)
                                 < Position(last.arg.order, r[j].userId)

\* C17 witness: A with average 0.5, B with a larger average and C without
\* confirmed data are returned as [A, B, C], although the query returned
\* B's rows before A's.
C17_Witness ==
    /\ last.op = "ranking"
    /\ Len(last.ret.rankings) = 3
    /\ last.ret.rankings[1].averageDeviation = 50
    /\ last.ret.rankings[2].averageDeviation > 50
    /\ IsSentinel(last.ret.rankings[3])
    /\ Position(last.arg.order, last.ret.rankings[2].userId)
          < Position(last.arg.order, last.ret.rankings[1].userId)

\* C18: every user who has a prediction dated the current day and no
\* confirmed deviation inside the window is in the result as a sentinel
\* row.
C18_SentinelAppended ==
    last.op = "ranking" =>
        \A u \in RankUsers :
            (/\ \E i \in LatestRows(predictions, now) : predictions[i].user_id = u
             /\ ~HasConfirmedDeviation(u))
            => \E n \in 1..Len(last.ret.rankings) :
                  /\ last.ret.rankings[n].userId = u
                  /\ IsSentinel(last.ret.rankings[n])

(***************************************************************************)
(* Statistics (lib/stats).  Percent changes are in hundredths of a percent *)
(* here; a mean is the fraction [num, den] of its sum and its count.       *)
(***************************************************************************)
\* the tolerance 0.1 of isDirectionCorrect, in hundredths
DirectionTolerance == 10

\* mutant: the tolerance also forgives a flat actual
isDirectionCorrect_Symmetric(predicted, actual) ==
    IF predicted = 0 /\ actual = 0 THEN TRUE
    ELSE IF predicted > 0 /\ actual > 0 THEN TRUE
    ELSE IF predicted < 0 /\ actual < 0 THEN TRUE
    ELSE IF predicted = 0 /\ Abs(actual) <= DirectionTolerance THEN TRUE
    ELSE IF actual = 0 /\ Abs(predicted) <= DirectionTolerance THEN TRUE
    ELSE FALSE

isDirectionCorrect(predicted, actual) ==
    IF predicted = 0 /\ actual = 0 THEN TRUE
    ELSE IF predicted > 0 /\ actual > 0 THEN TRUE
    ELSE IF predicted < 0 /\ actual < 0 THEN TRUE
    ELSE IF predicted = 0 /\ Abs(actual) <= DirectionTolerance THEN TRUE
    ELSE FALSE

RECURSIVE SumSeq(_)
SumSeq(values) == IF values = <<>> THEN 0 ELSE Head(values) + SumSeq(Tail(values))

calculateMean(values) ==
    IF Len(values) = 0 THEN [num |-> 0, den |-> 1]
    ELSE [num |-> SumSeq(values), den |-> Len(values)]

\* the variance, of which calculateStandardDeviation returns the square
\* root: the mean of the squared differences from the mean
calculateStandardDeviation(values) ==
    IF Len(values) = 0 THEN [num |-> 0, den |-> 1]
    ELSE LET n == Len(values)
             squares == [i \in 1..n |-> values[i] * values[i]]
         IN  [num |-> n * SumSeq(squares) - SumSeq(values) * SumSeq(values),
              den |-> n * n]

\* the value calculateStockStats returns, as a set: {} when the call throws
\* (the TypeError of reading a property of null)
calculateStockStats(records, symbol) ==
    IF \E n \in 1..Len(records) : ~records[n].asset[symbol].present
    THEN {}
    ELSE
      LET confirmedRecords ==
              SelectSeq(records, LAMBDA r : r.asset[symbol].actualChange # NULL)
          n == Len(confirmedRecords)
          deviationValues == [i \in 1..n |-> confirmedRecords[i].asset[symbol].deviation]
          minDeviation == CHOOSE v \in {deviationValues[i] : i \in 1..n} :
                              \A i \in 1..n : v <= deviationValues[i]
          maxDeviation == CHOOSE v \in {deviationValues[i] : i \in 1..n} :
                              \A i \in 1..n : v >= deviationValues[i]
          First(v) == CHOOSE i \in 1..n :
                         /\ deviationValues[i] = v
                         /\ \A j \in 1..(i - 1) : deviationValues[j] # v
          correctDirections ==
              Cardinality({i \in 1..n :
                  isDirectionCorrect(confirmedRecords[i].asset[symbol].predictedChange,
                                     confirmedRecords[i].asset[symbol].actualChange)})
      IN  IF n = 0
          THEN {[averageDeviation     |-> [num |-> 0, den |-> 1],
                 minDeviation         |-> 0,
                 minDeviationDate     |-> NULL,
                 maxDeviation         |-> 0,
                 maxDeviationDate     |-> NULL,
                 standardDeviation    |-> [num |-> 0, den |-> 1],
                 directionAccuracy    |-> [num |-> 0, den |-> 1],
                 totalPredictions     |-> Len(records),
                 confirmedPredictions |-> 0]}
          ELSE {[averageDeviation     |-> calculateMean(deviationValues),
                 minDeviation         |-> minDeviation,
                 minDeviationDate     |-> confirmedRecords[First(minDeviation)].date,
                 maxDeviation         |-> maxDeviation,
                 maxDeviationDate     |-> confirmedRecords[First(maxDeviation)].date,
                 standardDeviation    |-> calculateStandardDeviation(deviationValues),
                 directionAccuracy    |-> [num |-> 100 * correctDirections, den |-> n],
                 totalPredictions     |-> Len(records),
                 confirmedPredictions |-> n]}

(***************************************************************************)
(* The statistics functions as functions of their inputs                    *)
(***************************************************************************)
\* arguments of isDirectionCorrect range over -MaxDir..MaxDir (hundredths)
MaxDir == 100

\* percent changes of the records given to calculateStockStats range over
\* -MaxStat..MaxStat
MaxStat == 1

\* number of records given to calculateStockStats
MaxStatRecords == 2

DirVals == (-MaxDir)..MaxDir

StatVals == (-MaxStat)..MaxStat

\* what a record holds for the instrument: nothing (not predicted), a
\* prediction without result, or a prediction with its result and deviation
StatShapes ==
    {NullAsset}
       \cup {[present |-> TRUE, previousClose |-> PrevCloseIn, predictedChange |-> p,
              actualChange |-> NULL, deviation |-> NULL] : p \in StatVals}
       \cup {[present |-> TRUE, previousClose |-> PrevCloseIn, predictedChange |-> p,
              actualChange |-> a, deviation |-> calculateDeviation(p, a)] :
                p \in StatVals, a \in StatVals}

\* an instrument other than symbol, which the records predicted as well
OtherAsset(symbol) ==
    IF symbol = ASSET_KEYS[1] THEN ASSET_KEYS[2] ELSE ASSET_KEYS[1]

\* the record of day date whose instrument symbol has the given shape
StatRecord(date, symbol, shape) ==
    [id            |-> date,
     date          |-> date,
     asset         |-> [k \in Assets |->
                          IF k = symbol THEN shape
                          ELSE IF k = OtherAsset(symbol)
                          THEN [present |-> TRUE, previousClose |-> PrevCloseIn,
                                predictedChange |-> 0, actualChange |-> NULL,
                                deviation |-> NULL]
                          ELSE NullAsset],
     reviewComment |-> NULL,
     createdAt     |-> ISOString(24 * date),
     confirmedAt   |-> NULL]

\* record lists, newest first, of at most MaxStatRecords days
StatRecords(symbol) ==
    UNION {{[i \in 1..n |-> StatRecord(n - i, symbol, shapes[i])] :
               shapes \in [1..n -> StatShapes]} : n \in 0..MaxStatRecords}

CallIsDirectionCorrect(predicted, actual) ==
    /\ last' = Op("isDirectionCorrect", "", 0,
                  [predicted |-> predicted, actual |-> actual],
                  {}, isDirectionCorrect(predicted, actual))
    /\ UNCHANGED <<predictions, nextId, clk, tz, calls, pendingPredictions,
                   autoConfirmProcessedRef, autoConfirmRunRef, ops>>

CallCalculateStockStats(records, symbol) ==
    /\ last' = Op("calculateStockStats", "", 0,
                  [records |-> records, symbol |-> symbol],
                  {}, calculateStockStats(records, symbol))
    /\ UNCHANGED <<predictions, nextId, clk, tz, calls, pendingPredictions,
                   autoConfirmProcessedRef, autoConfirmRunRef, ops>>

\* one call per behaviour
NextStats ==
    \/ /\ last.op = "init"
       /\ \E predicted \in DirVals, actual \in DirVals :
             CallIsDirectionCorrect(predicted, actual)
    \/ /\ last.op = "init"
       /\ \E symbol \in InputAssets : \E records \in StatRecords(symbol) :
             CallCalculateStockStats(records, symbol)

SpecStats == Init /\ [][NextStats]_vars

PredictedRecords ==
    {n \in 1..Len(last.arg.records) : last.arg.records[n].asset[last.arg.symbol].present}

\* the records of the last call that have a confirmed value for the instrument
ConfirmedRecords ==
    {n \in PredictedRecords :
        last.arg.records[n].asset[last.arg.symbol].actualChange # NULL}

\* C20: calculateStockStats never throws; when no record has a confirmed
\* value for the instrument it returns all-zero metrics, confirmedPredictions
\* 0 and totalPredictions = the number of records that predicted the
\* instrument.
C20_StatsNeverThrows ==
    last.op = "calculateStockStats" =>
        /\ last.ret # {}
        /\ ConfirmedRecords = {} =>
              \A st \in last.ret :
                 /\ st.averageDeviation.num = 0
                 /\ st.minDeviation = 0
                 /\ st.maxDeviation = 0
                 /\ st.standardDeviation.num = 0
                 /\ st.directionAccuracy.num = 0
                 /\ st.minDeviationDate = NULL
                 /\ st.maxDeviationDate = NULL
                 /\ st.confirmedPredictions = 0
                 /\ st.totalPredictions = Cardinality(PredictedRecords)

(***************************************************************************)
(* Storage calls step by step.  Every await of a storage function is a     *)
(* step of its own, so that the requests of two callers and of the         *)
(* all-users sweep interleave, and a request of updatePredictionResult or  *)
(* editPrediction may fail.  calls[p] is the call of caller p and          *)
(* calls.sweep the run of autoConfirmAllPending.                           *)
(***************************************************************************)
Procs == {"p1", "p2"}

IdleCall ==
    [op |-> "none", pc |-> "idle", user |-> "", id |-> 0, arg |-> 0, today |-> 0,
     current |-> {}, pre |-> {}, row |-> {}, ret |-> {},
     fetchError |-> FALSE, error |-> FALSE, overSweep |-> FALSE]

IdleSweep ==
    [pc |-> "idle", eligible |-> <<>>, changePercents |-> AllNull,
     remaining |-> {}, written |-> {}]

\* the first caller starts first; the second caller makes a call of the
\* same kind as the first, and only the first caller's requests fail
MayStart(p, op, failure) ==
    /\ calls[p].pc = "idle"
    /\ p = "p2" => /\ calls["p1"].op = op
                   /\ op \in {"create", "setActuals"}
                   /\ ~failure

\* the row a successful INSERT of addPrediction stores
insertData(newId, userId, input, t) ==
    [id               |-> newId,
     user_id          |-> userId,
     date             |-> getToday(t),
     previous_close   |-> [k \in Assets |->
                             IF input[k] # UNDEF THEN PrevCloseIn ELSE NULL],
     predicted_change |-> [k \in Assets |->
                             IF input[k] # UNDEF THEN input[k] ELSE NULL],
     actual_change    |-> AllNull,
     deviation        |-> AllNull,
     review_comment   |-> NULL,
     created_at       |-> ISOString(t),
     confirmed_at     |-> NULL]

\* mutant: the caller that lost the insert gets nothing
AddExisting_Null(db, userId, today) == {}

\* the re-read of addPrediction after error 23505: existing, or null
AddExisting(db, userId, today) ==
    {rowToRecord(db[i]) : i \in MatchUserDate(db, userId, today)}

\* addPrediction, first request: the INSERT, which the unique constraint on
\* (user_id, date) rejects when the day already has a row
AddInsert(p, input) ==
    /\ MayStart(p, "create", FALSE)
    /\ LET today == getToday(now)
           conflict == MatchUserDate(predictions, SessionUser, today) # {}
           row == insertData(nextId, SessionUser, input, now)
           call == [IdleCall EXCEPT !.op = "create", !.user = SessionUser,
                                    !.arg = input, !.today = today]
       IN  IF conflict
           THEN /\ calls' = [calls EXCEPT ![p] = [call EXCEPT !.pc = "reread"]]
                /\ UNCHANGED <<predictions, nextId>>
           ELSE /\ predictions' = Put(predictions, nextId, row)
                /\ nextId' = nextId + 1
                /\ calls' = [calls EXCEPT ![p] =
                                [call EXCEPT !.pc = "done", !.id = nextId,
                                             !.row = {row},
                                             !.ret = {rowToRecord(row)}]]
    /\ UNCHANGED <<clk, tz, pendingPredictions, autoConfirmProcessedRef,
                   autoConfirmRunRef, ops, last>>

\* addPrediction, second request after a conflict: the re-read
AddReread(p) ==
    /\ calls[p].pc = "reread"
    /\ calls' = [calls EXCEPT ![p] =
                    [calls[p] EXCEPT
                        !.pc = "done",
                        !.ret = AddExisting(predictions, calls[p].user,
                                            calls[p].today)]]
    /\ UNCHANGED <<predictions, nextId, clk, tz, pendingPredictions,
                   autoConfirmProcessedRef, autoConfirmRunRef, ops, last>>

\* the user's write lands between the sweep's read and its write of the row
OverSweep(id) == calls.sweep.pc = "write" /\ id \in calls.sweep.remaining

\* updatePredictionResult, first request: the read of the current row
UpdateRead(p, id, results, fetchError) ==
    /\ MayStart(p, "setActuals", fetchError)
    /\ LET found == MatchIdUser(predictions, id, SessionUser)
           call == [IdleCall EXCEPT !.op = "setActuals", !.user = SessionUser,
                                    !.id = id, !.arg = results,
                                    !.pre = Target(predictions, id),
                                    !.fetchError = fetchError]
       IN  calls' = [calls EXCEPT ![p] =
                       IF fetchError \/ found = {}
                       THEN [call EXCEPT !.pc = "done"]
                       ELSE [call EXCEPT !.pc = "write",
                                         !.current = {predictions[id]}]]
    /\ UNCHANGED <<predictions, nextId, clk, tz, pendingPredictions,
                   autoConfirmProcessedRef, autoConfirmRunRef, ops, last>>

\* the payload of the UPDATE, built from the row read before
UpdateWritePayload(db, call, t) ==
    UpdateResultPayload(CHOOSE c \in call.current : TRUE, call.arg, t)

\* updatePredictionResult, second request: the UPDATE
UpdateWrite(p, error) ==
    /\ calls[p].pc = "write"
    /\ error => p = "p1"
    /\ calls[p].op = "setActuals"
    /\ LET call == calls[p]
           found == MatchIdUser(predictions, call.id, call.user)
           row == ApplyUpdates(predictions[call.id],
                               UpdateWritePayload(predictions, call, now))
       IN  IF error \/ found = {}
           THEN /\ calls' = [calls EXCEPT ![p] =
                               [call EXCEPT !.pc = "done", !.error = error]]
                /\ UNCHANGED predictions
           ELSE /\ predictions' = Put(predictions, call.id, row)
                /\ calls' = [calls EXCEPT ![p] =
                               [call EXCEPT !.pc = "done", !.row = {row},
                                            !.ret = {rowToRecord(row)},
                                            !.overSweep = OverSweep(call.id)]]
    /\ UNCHANGED <<nextId, clk, tz, pendingPredictions, autoConfirmProcessedRef,
                   autoConfirmRunRef, ops, last>>

\* editPrediction, first request: the read of the current row, whose error
\* is not looked at
EditRead(p, id, updates, fetchError) ==
    /\ MayStart(p, "edit", fetchError)
    /\ LET found == MatchIdUser(predictions, id, SessionUser)
           call == [IdleCall EXCEPT !.op = "edit", !.user = SessionUser,
                                    !.id = id, !.arg = updates,
                                    !.pre = Target(predictions, id),
                                    !.fetchError = fetchError]
       IN  calls' = [calls EXCEPT ![p] =
                       [call EXCEPT !.pc = "write",
                                    !.current = IF fetchError \/ found = {} THEN {}
                                                ELSE {predictions[id]}]]
    /\ UNCHANGED <<predictions, nextId, clk, tz, pendingPredictions,
                   autoConfirmProcessedRef, autoConfirmRunRef, ops, last>>

\* dbUpdates of editPrediction: confirmed_at is named only if (current)
EditWritePayload(call, t) ==
    [EditPayload(call.arg) EXCEPT
        !.confirmed_at =
            IF call.current # {}
            THEN EditConfirmedAt(CHOOSE c \in call.current : TRUE, call.arg, t)
            ELSE UNDEF]

\* editPrediction, second request: the UPDATE
EditWrite(p, error) ==
    /\ calls[p].pc = "write"
    /\ error => p = "p1"
    /\ calls[p].op = "edit"
    /\ LET call == calls[p]
           found == MatchIdUser(predictions, call.id, call.user)
           row == ApplyUpdates(predictions[call.id], EditWritePayload(call, now))
       IN  IF error \/ found = {}
           THEN /\ calls' = [calls EXCEPT ![p] =
                               [call EXCEPT !.pc = "done", !.error = error]]
                /\ UNCHANGED predictions
           ELSE /\ predictions' = Put(predictions, call.id, row)
                /\ calls' = [calls EXCEPT ![p] =
                               [call EXCEPT !.pc = "done", !.row = {row},
                                            !.ret = {rowToRecord(row)},
                                            !.overSweep = OverSweep(call.id)]]
    /\ UNCHANGED <<nextId, clk, tz, pendingPredictions, autoConfirmProcessedRef,
                   autoConfirmRunRef, ops, last>>

\* autoConfirmAllPending, first request: the select of the pending rows,
\* followed by the quotes of the instruments the eligible rows need
SweepRead(changePercents) ==
    /\ calls.sweep.pc = "idle"
    /\ LET eligible == SweepEligible(predictions, now)
       IN  /\ \A k \in Assets :
                 k \notin neededSymbols(predictions, eligible)
                    => changePercents[k] = NULL
           /\ calls' = [calls EXCEPT !.sweep =
                 [pc             |-> IF eligible = {} THEN "done" ELSE "write",
                  eligible       |-> [i \in eligible |-> predictions[i]],
                  changePercents |-> changePercents,
                  remaining      |-> eligible,
                  written        |-> {}]]
    /\ UNCHANGED <<predictions, nextId, clk, tz, pendingPredictions,
                   autoConfirmProcessedRef, autoConfirmRunRef, ops, last>>

\* .eq('id', pred.id): the rows the sweep's UPDATE matches
SweepTarget(db, pred) ==
    {i \in DOMAIN db : i = pred.id}

\* autoConfirmAllPending, one UPDATE of its loop
SweepWrite(i) ==
    /\ calls.sweep.pc = "write"
    /\ i \in calls.sweep.remaining
    /\ LET sw == calls.sweep
           pred == sw.eligible[i]
           remaining == sw.remaining \ {i}
       IN  /\ predictions' =
                 [j \in DOMAIN predictions |->
                     IF j \in SweepTarget(predictions, pred)
                     THEN ApplyUpdates(predictions[j],
                                       SweepPayload(pred, sw.changePercents, now))
                     ELSE predictions[j]]
           /\ calls' = [calls EXCEPT !.sweep =
                 [sw EXCEPT !.remaining = remaining,
                            !.written = @ \cup SweepTarget(predictions, pred),
                            !.pc = IF remaining = {} THEN "done" ELSE "write"]]
    /\ UNCHANGED <<nextId, clk, tz, pendingPredictions, autoConfirmProcessedRef,
                   autoConfirmRunRef, ops, last>>

\* the instruments the callers name
CallAssets == {ASSET_KEYS[1], ASSET_KEYS[2]}

\* inputs of the callers
CallCreateInputs ==
    {input \in CreateInputs : Named(input) # {} /\ Named(input) \subseteq CallAssets}

CallResultInputs == {results \in ResultInputs : Named(results) \subseteq CallAssets}

CallEditInputs ==
    {updates \in EditInputs : \A k \in Assets \ CallAssets : ~updates[k].present}

CallQuoteInputs ==
    {q \in QuoteInputs : \A k \in Assets \ CallAssets : q[k] = NULL}

\* the table at the start: empty, or the session user's record of day 0
CallTables ==
    {<<>>} \cup {addPrediction(<<>>, 1, SessionUser, NamedSame(S, 0, UNDEF),
                               NowAt(0)).db : S \in (SUBSET CallAssets) \ {{}}}

\* the clock readings at which the calls are made
CallClocks == {MaxClock}

InitCalls ==
    /\ predictions \in CallTables
    /\ nextId = Cardinality(DOMAIN predictions) + 1
    /\ clk \in CallClocks
    /\ tz \in TzOffsets
    /\ pendingPredictions = <<>>
    /\ autoConfirmProcessedRef = {}
    /\ autoConfirmRunRef = FALSE
    /\ ops = 0
    /\ calls = [p \in Procs \cup {"sweep"} |->
                   IF p = "sweep" THEN IdleSweep ELSE IdleCall]
    /\ last = Op("init", "", 0, 0, {}, {})

NextCalls ==
    \/ \E p \in Procs, input \in CallCreateInputs : AddInsert(p, input)
    \/ \E p \in Procs : AddReread(p)
    \/ \E p \in Procs, id \in DOMAIN predictions, results \in CallResultInputs,
          fetchError \in BOOLEAN : UpdateRead(p, id, results, fetchError)
    \/ \E p \in Procs, error \in BOOLEAN : UpdateWrite(p, error)
    \/ \E p \in Procs, id \in DOMAIN predictions, updates \in CallEditInputs,
          fetchError \in BOOLEAN : EditRead(p, id, updates, fetchError)
    \/ \E p \in Procs, error \in BOOLEAN : EditWrite(p, error)
    \/ \E q \in CallQuoteInputs : SweepRead(q)
    \/ \E i \in DOMAIN predictions : SweepWrite(i)

SpecCalls == InitCalls /\ [][NextCalls]_vars

(***************************************************************************)
(* Properties of the storage calls step by step (SpecCalls)                 *)
(***************************************************************************)
\* the caller other than p
OtherProc(p) == IF p = "p1" THEN "p2" ELSE "p1"

\* nothing but the call of p has written the row the call addresses
Undisturbed(p) ==
    /\ calls[OtherProc(p)].row = {} \/ calls[OtherProc(p)].id # calls[p].id
    /\ calls[p].id \notin calls.sweep.written

\* the values of a row that a confirmation writes
Outcome(row) ==
    [actual_change |-> row.actual_change, deviation |-> row.deviation,
     confirmed_at |-> row.confirmed_at]

\* C21: when a read or a write of setActuals or edit fails, the stored
\* record is left as it was before the call and the caller gets a failure
\* result (null).
C21_FailureAllOrNothing ==
    \A p \in Procs :
        (/\ calls[p].pc = "done"
         /\ calls[p].op \in {"setActuals", "edit"}
         /\ calls[p].fetchError \/ calls[p].error
         /\ calls[p].pre # {}
         /\ Undisturbed(p))
        => /\ calls[p].ret = {}
           /\ predictions[calls[p].id] \in calls[p].pre

\* C22: values a manual confirm or an edit commits after the all-users
\* sweep has read its pending list and before the sweep writes the record
\* are still the stored actualChange, deviation and confirmedAt when the
\* sweep has finished.
C22_SweepKeepsUserValues ==
    \A p \in Procs :
        (/\ calls[p].pc = "done"
         /\ calls[p].overSweep
         /\ \A w \in calls[p].row, r \in calls[p].pre : Outcome(w) # Outcome(r)
         /\ calls[OtherProc(p)].row = {} \/ calls[OtherProc(p)].id # calls[p].id
         /\ calls.sweep.pc = "done")
        => \A w \in calls[p].row :
              Outcome(predictions[calls[p].id]) = Outcome(w)

\* both callers have completed a create (for the same user and date)
BothCreated ==
    /\ \A p \in Procs : calls[p].pc = "done" /\ calls[p].op = "create"
    /\ calls["p1"].today = calls["p2"].today
    /\ calls.sweep.written = {}

\* C23: after two concurrent creates of one user for one date, exactly one
\* row is stored for that user and date, and both callers have received
\* that record (no null).
C23_ConcurrentCreate ==
    BothCreated =>
        LET rows == MatchUserDate(predictions, SessionUser, calls["p1"].today)
        IN  /\ Cardinality(rows) = 1
            /\ \A p \in Procs : calls[p].ret = {rowToRecord(predictions[i]) : i \in rows}

\* C23 witness: the first caller's insert stored the row, the second
\* caller's insert was rejected and its re-read returned the first's record.
C23_Witness ==
    /\ BothCreated
    /\ calls["p1"].row # {}
    /\ calls["p2"].row = {}
    /\ calls["p2"].ret = calls["p1"].ret
    /\ calls["p2"].ret # {}

\* C24: two setActuals calls on one Pending record, each supplying the
\* actual value of a different predicted instrument, have completed: if
\* every predicted instrument now has an actualChange, confirmedAt is set.
C24_ConcurrentSetActuals ==
    (/\ \A p \in Procs :
           /\ calls[p].pc = "done"
           /\ calls[p].op = "setActuals"
           /\ calls[p].ret # {}
           /\ \A row \in calls[p].pre :
                 /\ row.confirmed_at = NULL
                 /\ Named(calls[p].arg) \subseteq PredictedColumns(row)
     /\ calls["p1"].id = calls["p2"].id
     /\ Named(calls["p1"].arg) \cap Named(calls["p2"].arg) = {}
     /\ calls.sweep.written = {})
    => LET row == predictions[calls["p1"].id]
       IN  AllActual(row) => row.confirmed_at # NULL

(***************************************************************************)
(* One browser session of the session user, without a bound on the number  *)
(* of operations: the hook's add, edit and loadData, the effect that runs  *)
(* on every new stockData, and the clock.                                  *)
(***************************************************************************)
\* the form is submitted while the cached pending list is shorter than this
MaxPending == 2

\* edits that clear the actual value of one instrument
SessionEdits ==
    {updates \in CallEditInputs :
        /\ \E k \in Assets : updates[k].present
        /\ \A k \in Assets : updates[k].present =>
              updates[k].predictedChange = UNDEF /\ updates[k].actualChange = NULL}

\* ids the session's records can have
SessionIds == 1..(MaxClock \div Len(ClockHours) + 1)

SessionCreate(input) ==
    /\ Len(pendingPredictions) < MaxPending
    /\ DoCreate(SessionUser, input)
    /\ UNCHANGED ops

SessionEdit(id, updates) == DoEdit(SessionUser, id, updates) /\ UNCHANGED ops

SessionLoadData == DoLoadData /\ UNCHANGED ops

\* a quote refresh: useStock sets a new stockData and the effect runs
Refresh(stockData) == DoClientSweep(stockData) /\ UNCHANGED ops

SessionTick == DoTick /\ UNCHANGED ops

NextSession ==
    \/ \E input \in CallCreateInputs : SessionCreate(input)
    \/ \E id \in DOMAIN predictions, updates \in SessionEdits : SessionEdit(id, updates)
    \/ SessionLoadData
    \/ \E q \in CallQuoteInputs : Refresh(q)
    \/ SessionTick

\* quote refreshes keep arriving
SpecSession ==
    Init /\ [][NextSession]_vars /\ WF_vars(\E q \in CallQuoteInputs : Refresh(q))

(***************************************************************************)
(* Properties of the client sweep (SpecSession)                             *)
(***************************************************************************)
\* the ids the last run of the effect passed to updatePredictionResult
Passed(op) == (CHOOSE run \in op.ret : TRUE).passed

GoodRefresh(id) ==
    /\ last.op = "clientSweep"
    /\ \E row \in last.pre :
          /\ row.id = id
          /\ canAutoConfirm(row.date, row.confirmed_at, PredictedColumns(row), now, tz)
          /\ \A k \in PredictedColumns(row) : last.arg[k] # NULL

\* C26: a Pending record a sweep skipped is retried: if refreshes at which
\* the record could be confirmed keep arriving, the record is eventually
\* confirmed.
C26_SkippedIsRetried ==
    \A id \in SessionIds :
        []<>GoodRefresh(id) =>
            <>(id \in DOMAIN predictions /\ predictions[id].confirmed_at # NULL)

(***************************************************************************)
(* The gate applied to a record create has just stored (SpecGate)           *)
(***************************************************************************)
\* C27: for every local-time offset and every instant, a record create has
\* just stored (date = getToday(), not confirmed) is refused by
\* canAutoConfirm as long as the UTC hour has not reached the close hour of
\* at least one instrument it predicted.
C27_FreshRecordNotEligible ==
    (/\ last.op = "canAutoConfirm"
     /\ last.arg.date = getToday(last.arg.t)
     /\ last.arg.confirmedAt = NULL
     /\ \E a \in last.arg.assets : getUTCHours(last.arg.t) < StatedCloseHour(a))
    => last.ret = FALSE

(***************************************************************************)
(* Direction accuracy of the leaderboard (SpecRanking)                      *)
(***************************************************************************)
\* the pooled (predictedChange, actualChange) pairs of user u inside the
\* window of the last request
PooledPairs(u) ==
    DirectionCells(predictions,
                   ConfirmedInWindow(predictions, last.arg.period, now), u)

\* the pooled pairs that isDirectionCorrect accepts (percent to hundredths)
PairsDirectionCorrect(u) ==
    {c \in PooledPairs(u) :
        isDirectionCorrect(100 * Number(predictions[c[1]].predicted_change[c[2]]),
                           100 * Number(predictions[c[1]].actual_change[c[2]]))}

\* C28: a leaderboard row's directionAccuracy is 100 x (the user's pooled
\* confirmed pairs that satisfy isDirectionCorrect) / (the user's pooled
\* confirmed pairs), to one decimal.
C28_RankingDirection ==
    last.op = "ranking" =>
        \A n \in 1..Len(last.ret.rankings) :
            LET entry == last.ret.rankings[n]
                pairs == PooledPairs(entry.userId)
            IN  (~IsSentinel(entry) /\ pairs # {}) =>
                    entry.directionAccuracy =
                        Round(1000 * Cardinality(PairsDirectionCorrect(entry.userId)),
                              Cardinality(pairs))

(***************************************************************************)
(* Instruments a record did not predict (Spec)                              *)
(***************************************************************************)
\* C29: after setActuals or edit, every instrument the record had not
\* predicted still has null predictedChange, actualChange and deviation,
\* also when the argument names such an instrument.
C29_UnpredictedStaysNull ==
    (last.op \in {"setActuals", "edit"} /\ last.ret # {}) =>
        \A pre \in last.pre : \A k \in Assets :
            pre.predicted_change[k] = NULL =>
                /\ predictions[last.id].predicted_change[k] = NULL
                /\ predictions[last.id].actual_change[k] = NULL
                /\ predictions[last.id].deviation[k] = NULL

(***************************************************************************)
(* Quotes.  /api/stock builds a quote per instrument from the chart         *)
(* response; useStock stores the quotes as stockData, the effect and the    *)
(* confirm button of ResultCard read them.  In this specification calls     *)
(* holds the hook state of useStock: stockData (changePercent per           *)
(* instrument, NULL without quote) and the instruments whose response had   *)
(* no previous close.                                                       *)
(***************************************************************************)
\* a value that JavaScript's || and ! treat as false
IsFalsy(x) == x \in {UNDEF, NULL, 0}

\* fetchStock: the quote built from a chart response, {} for null
fetchStock(response) ==
    IF ~response.ok THEN {}
    ELSE
      LET currentPrice == response.regularMarketPrice
          fromMeta == IF ~IsFalsy(response.previousClose) THEN response.previousClose
                      ELSE response.chartPreviousClose
          closes == SelectSeq(response.close, LAMBDA c : c # NULL)
          fromCloses ==
              IF ~IsFalsy(fromMeta) THEN fromMeta
              ELSE IF Len(closes) >= 2 THEN closes[Len(closes) - 1]
              ELSE IF Len(closes) = 1 THEN closes[1]
              ELSE fromMeta
          previousClose == IF IsFalsy(fromCloses) THEN currentPrice ELSE fromCloses
          change == currentPrice - previousClose
      IN  {[price         |-> currentPrice,
            previousClose |-> previousClose,
            change        |-> change,
            changePercent |-> IF previousClose # 0
                              THEN (100 * change) \div previousClose ELSE 0]}

\* chart responses: a failed request, or a price with or without the
\* previous close in meta and with zero, one or two daily closes
ChartResponses ==
    {[ok |-> FALSE, regularMarketPrice |-> UNDEF, previousClose |-> UNDEF,
      chartPreviousClose |-> UNDEF, close |-> <<>>]}
      \cup UNION {{[ok |-> TRUE, regularMarketPrice |-> PrevCloseIn + v,
                     previousClose |-> pc, chartPreviousClose |-> cpc, close |-> cl] :
                       pc \in {UNDEF, PrevCloseIn}, cpc \in {UNDEF, PrevCloseIn},
                       cl \in {<<>>, <<NULL>>, <<PrevCloseIn>>,
                               <<PrevCloseIn, PrevCloseIn + v>>}} : v \in Vals}

\* the quote source cannot supply a previous close
NoPreviousClose(response) ==
    /\ response.ok
    /\ IsFalsy(response.previousClose)
    /\ IsFalsy(response.chartPreviousClose)
    /\ \A i \in 1..Len(response.close) : response.close[i] = NULL

\* the route answers for nikkei and sp500
QuotedAssets == {ASSET_KEYS[1], ASSET_KEYS[2]}

\* useStock: a fetch of /api/stock stores the quotes
FetchStock(responses) ==
    /\ Step
    /\ calls' = [stockData |->
                    [k \in Assets |->
                        IF k \in QuotedAssets /\ fetchStock(responses[k]) # {}
                        THEN (CHOOSE q \in fetchStock(responses[k]) : TRUE).changePercent
                        ELSE NULL],
                 noPreviousClose |->
                    {k \in QuotedAssets : NoPreviousClose(responses[k])}]
    /\ last' = Op("fetchStock", SessionUser, 0, 0, {}, {})
    /\ UNCHANGED <<predictions, nextId, clk, tz, pendingPredictions,
                   autoConfirmProcessedRef, autoConfirmRunRef>>

\* the effect of usePredictions runs on the stored stockData
EffectRuns == ClientSweep(calls.stockData)

\* the confirm button of ResultCard for one predicted instrument
handleConfirm(id, symbol) ==
    /\ id \in DOMAIN predictions
    /\ symbol \in PredictedColumns(predictions[id])
    /\ calls.stockData[symbol] # NULL
    /\ SetActuals(SessionUser, id,
                  NamedSame({symbol}, calls.stockData[symbol], UNDEF))

InitQuotes ==
    /\ predictions = <<>>
    /\ nextId = 1
    /\ clk = 0
    /\ tz \in TzOffsets
    /\ pendingPredictions = <<>>
    /\ autoConfirmProcessedRef = {}
    /\ autoConfirmRunRef = FALSE
    /\ ops = 0
    /\ calls = [stockData |-> AllNull, noPreviousClose |-> {}]
    /\ last = Op("init", "", 0, 0, {}, {})

NextQuotes ==
    \/ \E input \in CallCreateInputs : Create(SessionUser, input)
    \/ Tick
    \/ \E responses \in [QuotedAssets -> ChartResponses] : FetchStock(responses)
    \/ EffectRuns
    \/ \E id \in DOMAIN predictions, symbol \in QuotedAssets : handleConfirm(id, symbol)

SpecQuotes == InitQuotes /\ [][NextQuotes]_vars

\* C30: when the quote source cannot supply a previous close for an
\* instrument, neither the manual confirm nor the client sweep writes an
\* actualChange for that instrument.
C30_NoSubstitutedActual ==
    last.op \in {"setActuals", "clientSweep"} =>
        \A pre \in last.pre : \A k \in calls.noPreviousClose :
            pre.id \in DOMAIN predictions =>
                predictions[pre.id].actual_change[k] = pre.actual_change[k]

====
